---- MODULE Spec2Model ----
(***************************************************************************)
(* CyberGuard inference engine (scripts/ml_inference.py) as a state        *)
(* machine: the artifact files on disk, the CyberAttackPredictor object    *)
(* built from them, and the calls made on it.                              *)
(*                                                                         *)
(* Conventions of the model                                                *)
(*  - a Python str is a sequence of one-character strings;                 *)
(*  - a Python call that may raise is an operator returning a record       *)
(*    [exc |-> message or NoExc, val |-> value];                           *)
(*  - a float that is a multiple of 0.1 (frequency_score) is held in       *)
(*    tenths, a probability in hundredths;                                 *)
(*  - what a pickled scikit-learn object answers is the environment's      *)
(*    choice (env), drawn from small sets.                                 *)
(***************************************************************************)
EXTENDS Integers, Sequences, FiniteSets, TLC

VARIABLES
    disk,        \* the files under models/ for the version being loaded
    constructed, \* "no" | "ok" | "raised": outcome of CyberAttackPredictor(...)
    self,        \* the fields of the predictor object
    clock,       \* what datetime.now() returns
    last,        \* the last completed call: what it returned and printed
    batch,       \* the batch_predict call in progress (its locals)
    threads      \* the calls running side by side: their arguments and locals

vars == <<disk, constructed, self, clock, last, batch, threads>>

-----------------------------------------------------------------------------
(* Bounds of the model *)

MaxClock == 1
MaxBatch == 2
NumCalls == 2

\* min(score, 1.0) of _calculate_frequency_score, in tenths
ScoreClamp == 10

\* The confidence thresholds of _determine_risk_level, in hundredths
UpperThreshold == 90
LowerThreshold == 70

-----------------------------------------------------------------------------
(* Strings *)

NoExc == "none"

Ok(v) == [exc |-> NoExc, val |-> v]
Raise(msg) == [exc |-> msg, val |-> 0]

UpperChars == <<"A", "B", "C", "D", "E", "F", "G", "H", "I", "J", "K", "L", "M", "N", "O", "P", "Q", "R", "S", "T", "U", "V", "W", "X", "Y", "Z">>
LowerChars == <<"a", "b", "c", "d", "e", "f", "g", "h", "i", "j", "k", "l", "m", "n", "o", "p", "q", "r", "s", "t", "u", "v", "w", "x", "y", "z">>
DigitChars == <<"0", "1", "2", "3", "4", "5", "6", "7", "8", "9">>

\* The grave accent (code 96), the one character written by name.
Grave == "GRAVE"

\* The printable ASCII characters, code 32 at position 1.
Ascii == <<" ", "!", "\"", "#", "$", "%", "&", "'", "(", ")", "*", "+", ",", "-", ".", "/", "0", "1", "2", "3", "4", "5", "6", "7", "8", "9", ":", ";", "<", "=", ">", "?", "@", "A", "B", "C", "D", "E", "F", "G", "H", "I", "J", "K", "L", "M", "N", "O", "P", "Q", "R", "S", "T", "U", "V", "W", "X", "Y", "Z", "[", "\\", "]", "^", "_", Grave, "a", "b", "c", "d", "e", "f", "g", "h", "i", "j", "k", "l", "m", "n", "o", "p", "q", "r", "s", "t", "u", "v", "w", "x", "y", "z", "{", "|", "}", "~">>

Range(s) == {s[i] : i \in 1..Len(s)}

IndexIn(s, c) == IF c \in Range(s) THEN CHOOSE i \in 1..Len(s) : s[i] = c ELSE 0

Uppers == Range(UpperChars)

\* str.lower() on one character
lower_char(c) == IF c \in Uppers THEN LowerChars[IndexIn(UpperChars, c)] ELSE c

\* str.lower()
RECURSIVE lower(_)
lower(s) == IF s = <<>> THEN <<>> ELSE <<lower_char(Head(s))>> \o lower(Tail(s))

\* the test (p in s) of two strings
Contains(s, p) ==
    \E i \in 1..(Len(s) - Len(p) + 1) : \A j \in 1..Len(p) : s[i + j - 1] = p[j]

\* str.find(c, start) + 1 for a set of characters: the first position >= start
\* holding one of them, 0 when there is none
FindAny(s, cs, start) ==
    LET hits == {i \in start..Len(s) : s[i] \in cs}
    IN  IF hits = {} THEN 0 ELSE CHOOSE i \in hits : \A j \in hits : i <= j

\* str.rfind(c) + 1
RFind(s, c) ==
    LET hits == {i \in 1..Len(s) : s[i] = c}
    IN  IF hits = {} THEN 0 ELSE CHOOSE i \in hits : \A j \in hits : j <= i

\* s[i-1:] and s[:i-1] of Python, 1-based
From(s, i) == SubSeq(s, i, Len(s))
Upto(s, i) == SubSeq(s, 1, i)

\* str.split(sep) for a one-character separator: the sequence of pieces
RECURSIVE split(_, _)
split(s, sep) ==
    LET i == FindAny(s, {sep}, 1)
    IN  IF i = 0 THEN <<s>> ELSE <<Upto(s, i - 1)>> \o split(From(s, i + 1), sep)

\* len(re.findall(cls, s)) for a one-character class cls
CountIn(s, cs) == Cardinality({i \in 1..Len(s) : s[i] \in cs})

-----------------------------------------------------------------------------
(* urllib.parse, as far as extract_features uses it (CPython 3.11).  A     *)
(* netloc holding both brackets is further validated as an IP literal by   *)
(* recent releases; no URL of the model has one.                           *)

Letters == Range(UpperChars) \cup Range(LowerChars)
Digits == Range(DigitChars)
scheme_chars == Letters \cup Digits \cup {"+", "-", "."}
uses_params == {<<>>, <<"f", "t", "p">>, <<"h", "d", "l">>, <<"p", "r", "o", "s", "p", "e", "r", "o">>, <<"h", "t", "t", "p">>, <<"i", "m", "a", "p">>, <<"h", "t", "t", "p", "s">>, <<"s", "h", "t", "t", "p">>, <<"r", "t", "s", "p">>, <<"r", "t", "s", "p", "u">>, <<"s", "i", "p">>, <<"s", "i", "p", "s">>, <<"m", "m", "s">>, <<"s", "f", "t", "p">>, <<"t", "e", "l">>}

\* str.lstrip(" "): urlsplit strips leading C0 control characters and spaces
RECURSIVE lstrip(_)
lstrip(s) == IF s # <<>> /\ s[1] = " " THEN lstrip(Tail(s)) ELSE s

\* _splitparams and the result of urlparse: the parameters of the last path
\* segment are cut off the path
split_params(scheme, netloc, url, query) ==
    LET slash == RFind(url, "/")
        semi == IF slash > 0 THEN FindAny(url, {";"}, slash) ELSE FindAny(url, {";"}, 1)
    IN  Ok([scheme |-> scheme, netloc |-> netloc, query |-> query,
            path |-> IF scheme \in uses_params /\ semi > 0 THEN Upto(url, semi - 1) ELSE url])

\* urlsplit: url.split("?", 1)
split_query(scheme, netloc, url) ==
    LET qmark == FindAny(url, {"?"}, 1)
    IN  IF qmark = 0 THEN split_params(scheme, netloc, url, <<>>)
        ELSE split_params(scheme, netloc, Upto(url, qmark - 1), From(url, qmark + 1))

\* urlsplit: the bracket check of the netloc, then url.split("#", 1)
split_fragment(scheme, netloc, url) ==
    LET open == "[" \in Range(netloc)
        close == "]" \in Range(netloc)
        hash == FindAny(url, {"#"}, 1)
    IN  IF (open /\ ~close) \/ (close /\ ~open) THEN Raise("Invalid IPv6 URL")
        ELSE split_query(scheme, netloc, IF hash = 0 THEN url ELSE Upto(url, hash - 1))

\* urlsplit: _splitnetloc when the rest starts with two slashes
split_netloc(scheme, url) ==
    LET has_netloc == Len(url) >= 2 /\ url[1] = "/" /\ url[2] = "/"
        delim == IF has_netloc THEN FindAny(url, {"/", "?", "#"}, 3) ELSE 0
    IN  IF ~has_netloc THEN split_fragment(scheme, <<>>, url)
        ELSE IF delim = 0 THEN split_fragment(scheme, From(url, 3), <<>>)
        ELSE split_fragment(scheme, SubSeq(url, 3, delim - 1), From(url, delim))

\* urlsplit: the scheme is what precedes the first colon when it starts with
\* a letter and holds scheme characters only
split_scheme(url) ==
    LET colon == FindAny(url, {":"}, 1)
        has_scheme == /\ colon > 1
                      /\ url[1] \in Letters
                      /\ \A i \in 1..(colon - 1) : url[i] \in scheme_chars
    IN  IF has_scheme THEN split_netloc(lower(Upto(url, colon - 1)), From(url, colon + 1))
        ELSE split_netloc(<<>>, url)

\* urlparse(url): [exc, val |-> [scheme, netloc, path, query]]
urlparse(url) == split_scheme(lstrip(url))

HexChars == <<"0", "1", "2", "3", "4", "5", "6", "7", "8", "9", "a", "b", "c", "d", "e", "f">>
IsHex(c) == lower_char(c) \in Range(HexChars)
HexVal(c) == IndexIn(HexChars, lower_char(c)) - 1

\* The character of a byte; a byte outside the printable ASCII range is the
\* one token "OTHER" (no URL of the model escapes such a byte).
Chr(code) == IF code >= 32 /\ code <= 126 THEN Ascii[code - 31] ELSE "OTHER"

\* urllib.parse.unquote
RECURSIVE unquote(_)
unquote(s) ==
    IF s = <<>> THEN <<>>
    ELSE IF s[1] = "%" /\ Len(s) >= 3 /\ IsHex(s[2]) /\ IsHex(s[3])
         THEN <<Chr(16 * HexVal(s[2]) + HexVal(s[3]))>> \o unquote(From(s, 4))
         ELSE <<s[1]>> \o unquote(Tail(s))

\* str.replace("+", " ")
plus_to_space(s) == [i \in 1..Len(s) |-> IF s[i] = "+" THEN " " ELSE s[i]]

\* parse_qs(query): the parameter names it keeps (the keys of its result).
\* A field without "=" or with an empty value is dropped
\* (keep_blank_values=False); fields are separated by "&".
parse_qs(query) ==
    LET fields == IF query = <<>> THEN <<>> ELSE split(query, "&")
        eq(f) == FindAny(f, {"="}, 1)
        kept == {i \in 1..Len(fields) :
                    /\ fields[i] # <<>>
                    /\ eq(fields[i]) > 0
                    /\ eq(fields[i]) < Len(fields[i])}
    IN  {unquote(plus_to_space(Upto(fields[i], eq(fields[i]) - 1))) : i \in kept}

-----------------------------------------------------------------------------
(* The feature helpers of CyberAttackPredictor *)

\* The character class of special_char_count
SpecialChars == Range(<<"!", "@", "#", "$", "%", "^", "&", "*", "(", ")", "_", "+", "-", "=", "[", "]", "{", "}", ";", "'", ":", "\"", "\\", "|", ",", ".", "<", ">", "/", "?">>)

common_patterns == <<<<".", "c", "o", "m">>, <<".", "o", "r", "g">>, <<".", "n", "e", "t">>, <<"w", "w", "w", ".">>, <<"h", "t", "t", "p">>, <<"h", "t", "t", "p", "s">>>>

suspicious_keywords ==
    << <<"a", "d", "m", "i", "n">>,
       <<"r", "o", "o", "t">>,
       <<"p", "a", "s", "s", "w", "o", "r", "d">>,
       <<"p", "a", "s", "s", "w", "d">>,
       <<"l", "o", "g", "i", "n">>,
       <<"c", "m", "d">>,
       <<"s", "h", "e", "l", "l">>,
       <<"u", "n", "i", "o", "n">>,
       <<"s", "e", "l", "e", "c", "t">>,
       <<"i", "n", "s", "e", "r", "t">>,
       <<"d", "e", "l", "e", "t", "e">>,
       <<"d", "r", "o", "p">>,
       <<"e", "x", "e", "c">>,
       <<"s", "c", "r", "i", "p", "t">>,
       <<"a", "l", "e", "r", "t">>,
       <<"p", "r", "o", "m", "p", "t">>,
       <<"c", "o", "n", "f", "i", "r", "m">>,
       <<"j", "a", "v", "a", "s", "c", "r", "i", "p", "t">>,
       <<"v", "b", "s", "c", "r", "i", "p", "t">>,
       <<".", ".", "/">>,
       <<".", ".", "\\">>,
       <<"/", "e", "t", "c", "/">>,
       <<"/", "p", "r", "o", "c", "/">>,
       <<"/", "v", "a", "r", "/">>,
       <<"|">>,
       <<"&">>,
       <<";">>,
       <<Grave>>,
       <<"$", "(">> >>

\* _calculate_entropy(text).  The loop of lines 116-118 calls math.log2, but
\* the module never imports math (lines 7-13; the import inside
\* extract_features, line 65, binds a local of that function only), so every
\* text that reaches the loop raises NameError.
_calculate_entropy(text) ==
    IF text = <<>> THEN Ok(0)
    ELSE Raise("name math is not defined")

\* _calculate_frequency_score(url), in tenths: the loop adds 0.1 for each
\* pattern found in url.lower(), then min(score, 1.0).
RECURSIVE frequency_loop(_, _, _)
frequency_loop(url_lower, k, score) ==
    IF k > Len(common_patterns) THEN score
    ELSE frequency_loop(url_lower, k + 1,
            IF Contains(url_lower, common_patterns[k]) THEN score + 1 ELSE score)

Min(a, b) == IF a <= b THEN a ELSE b
Max(a, b) == IF a >= b THEN a ELSE b

\* A variant of _calculate_frequency_score that matches the URL as given
_calculate_frequency_score_cased(url) == Min(frequency_loop(url, 1, 0), ScoreClamp)

_calculate_frequency_score(url) == Min(frequency_loop(lower(url), 1, 0), ScoreClamp)

\* A variant of the keyword loop that adds one for every occurrence
RECURSIVE keyword_loop_occurrences(_, _, _)
keyword_loop_occurrences(url_lower, k, count) ==
    IF k > Len(suspicious_keywords) THEN count
    ELSE keyword_loop_occurrences(url_lower, k + 1,
            count + Cardinality({i \in 1..Len(url_lower) :
                        /\ i + Len(suspicious_keywords[k]) - 1 <= Len(url_lower)
                        /\ SubSeq(url_lower, i, i + Len(suspicious_keywords[k]) - 1)
                                = suspicious_keywords[k]}))

\* _count_suspicious_keywords(url)
RECURSIVE keyword_loop(_, _, _)
keyword_loop(url_lower, k, count) ==
    IF k > Len(suspicious_keywords) THEN count
    ELSE keyword_loop(url_lower, k + 1,
            IF Contains(url_lower, suspicious_keywords[k]) THEN count + 1 ELSE count)

_count_suspicious_keywords(url) == keyword_loop(lower(url), 1, 0)

\* len(re.findall("%[0-9A-Fa-f]{2}", url)): matches cannot overlap
encoded_chars_count(url) ==
    Cardinality({i \in 1..(Len(url) - 2) :
                    url[i] = "%" /\ IsHex(url[i + 1]) /\ IsHex(url[i + 2])})

NoDict == [k \in {} |-> 0]

\* dict.get(key, default)
Get(d, key, default) == IF key \in DOMAIN d THEN d[key] ELSE default

\* dict.update(other)
Update(d, other) ==
    [k \in (DOMAIN d) \cup (DOMAIN other) |-> IF k \in DOMAIN other THEN other[k] ELSE d[k]]

\* A variant of default_features that returns an empty dict
default_features_empty(me) == NoDict

\* {col: 0 for col in self.feature_columns}
default_features(me) == [col \in Range(me.feature_columns) |-> 0]

\* A variant of subdomain_count that forgets the max(0, ...)
subdomain_count_unclamped(domain) == Len(split(domain, ".")) - 2

\* max(0, len(domain.split(".")) - 2)
subdomain_count(domain) == Max(0, Len(split(domain, ".")) - 2)

\* The dict built by lines 73-86, given the parsed URL
basic_features(url, parsed) ==
    [url_length |-> Len(url),
     domain_length |-> Len(parsed.netloc),
     path_length |-> Len(parsed.path),
     query_length |-> Len(parsed.query),
     special_char_count |-> CountIn(url, SpecialChars),
     digit_count |-> CountIn(url, Digits),
     path_depth |-> LET parts == split(parsed.path, "/")
                    IN  Cardinality({i \in 1..Len(parts) : parts[i] # <<>>}),
     subdomain_count |-> subdomain_count(parsed.netloc),
     parameter_count |-> Cardinality(parse_qs(parsed.query)),
     encoded_chars_count |-> encoded_chars_count(url),
     frequency_score |-> _calculate_frequency_score(url),
     suspicious_keyword_count |-> _count_suspicious_keywords(url)]

\* extract_features after line 86: entropy, then the additional features
extract_entropy(me, additional_features, features, entropy) ==
    IF entropy.exc # NoExc THEN [exc |-> entropy.exc, val |-> default_features(me)]
    ELSE [exc |-> NoExc,
          val |-> IF additional_features # NoDict
                  THEN Update(Update(features, [entropy |-> entropy.val]), additional_features)
                  ELSE Update(features, [entropy |-> entropy.val])]

\* extract_features after line 67
extract_parsed(me, url, additional_features, parsed) ==
    IF parsed.exc # NoExc THEN [exc |-> parsed.exc, val |-> default_features(me)]
    ELSE extract_entropy(me, additional_features,
                         basic_features(url, parsed.val), _calculate_entropy(url))

\* The body of extract_features: [exc |-> what the except clause caught,
\* val |-> the dict returned].  additional_features is NoDict for None.
extract_run(me, url, additional_features) ==
    extract_parsed(me, url, additional_features, urlparse(url))

extract_features(me, url, additional_features) == extract_run(me, url, additional_features).val

-----------------------------------------------------------------------------
(* The artifact files of one version under models/, written by            *)
(* CyberAttackMLTrainer.save_models, and what joblib / json make of them  *)

None == [kind |-> "None"]

\* model_types as save_models writes them: list(self.models.keys())
ModelNames == <<"random_forest", "xgboost", "ensemble">>

\* feature_columns as the trainer fixes them (ml_training.py lines 26-31)
TrainedColumns ==
    <<"url_length", "domain_length", "path_length", "query_length",
      "special_char_count", "digit_count", "entropy", "path_depth",
      "subdomain_count", "parameter_count", "encoded_chars_count",
      "frequency_score", "suspicious_keyword_count">>

\* LabelEncoder.classes_ of a bundle trained on three labels (sorted)
Classes == <<"benign", "sqli", "typosquatting">>

\* A fitted StandardScaler: transform subtracts mean_ position by position
\* (unit scale_) and refuses a vector of another length.
Scaler(mean) == [kind |-> "StandardScaler", n_features_in_ |-> Len(mean), mean_ |-> mean]

Encoder(classes) == [kind |-> "LabelEncoder", classes_ |-> classes]

Classifier(name) == [kind |-> "classifier", name |-> name]

Manifest(columns) ==
    [version |-> "1.0.0", feature_columns |-> columns,
     attack_types |-> Classes, model_types |-> ModelNames]

\* The column means of the training frame, by column name (whole numbers,
\* one value per column)
TrainingMeans ==
    [name \in Range(TrainedColumns) |-> 10 * IndexIn(TrainedColumns, name) + 5]

\* prepare_data (ml_training.py lines 133-142): the scaler is fitted on
\* df[self.feature_columns], so its statistics stand in feature_columns
\* order, under the names of the frame
prepare_data(feature_columns, means) ==
    [kind |-> "StandardScaler", n_features_in_ |-> Len(feature_columns),
     mean_ |-> [i \in 1..Len(feature_columns) |-> means[feature_columns[i]]],
     feature_names_in_ |-> feature_columns]

\* save_models (ml_training.py lines 259-272): the fitted scaler, and the
\* metadata with self.feature_columns
save_models(feature_columns, scaler) ==
    [manifest |-> Manifest(feature_columns), scaler |-> scaler]

\* The bundle the training pipeline writes
TrainedBundle == save_models(TrainedColumns, prepare_data(TrainedColumns, TrainingMeans))

\* What the files hold when they can be read: the bundle the trainer writes,
\* a small synthetic bundle, and a bundle whose column list repeats a name
\* and does not match its scaler.
Contents ==
    { TrainedBundle,
      [manifest |-> Manifest(<<"url_length", "frequency_score">>),
       scaler |-> Scaler(<<3, 0>>)],
      [manifest |-> Manifest(<<"url_length", "url_length", "custom">>),
       scaler |-> Scaler(<<3, 0>>)] }

\* "incomplete": the JSON parses but lacks a key load_models reads
MetadataStatus == {"ok", "missing", "corrupt", "incomplete"}
FileStatus == {"ok", "missing", "corrupt"}

Disks ==
    { [metadata |-> m, content |-> c, model_file |-> f, scaler |-> s, label_encoder |-> e] :
        m \in MetadataStatus, c \in Contents,
        f \in [Range(ModelNames) -> FileStatus], s \in FileStatus, e \in FileStatus }

\* open(path) + json.load, then the two subscripts of lines 37-38
json_load(d) ==
    CASE d.metadata = "missing" -> Raise("FileNotFoundError")
      [] d.metadata = "corrupt" -> Raise("JSONDecodeError")
      [] OTHER -> Ok(d.content.manifest)

\* joblib.load of a file that may be absent or unreadable
joblib_load(status, obj) ==
    CASE status = "missing" -> Raise("FileNotFoundError")
      [] status = "corrupt" -> Raise("UnpicklingError")
      [] OTHER -> Ok(obj)

\* A variant of the existence test that lets every listed classifier through
exists_unchecked(d, model_type) == TRUE

\* os.path.exists(model_path)
exists(d, model_type) == d.model_file[model_type] # "missing"

-----------------------------------------------------------------------------
(* CyberAttackPredictor.__init__ and load_models *)

\* The fields set by lines 17-23
new_object(model_version) ==
    [model_version |-> model_version, models |-> NoDict, scaler |-> None,
     label_encoder |-> None, metadata |-> None, feature_columns |-> <<>>,
     attack_types |-> <<>>]

\* The loop of lines 41-45 from position k on: [exc, me, out]
RECURSIVE load_loop(_, _, _, _, _)
load_loop(me, d, types, k, out) ==
    IF k > Len(types) THEN [exc |-> NoExc, me |-> me, out |-> out]
    ELSE IF ~exists(d, types[k]) THEN load_loop(me, d, types, k + 1, out)
    ELSE LET got == joblib_load(d.model_file[types[k]], Classifier(types[k]))
         IN  IF got.exc # NoExc THEN [exc |-> got.exc, me |-> me, out |-> out]
             ELSE load_loop([me EXCEPT !.models = Update(@, [m \in {types[k]} |-> got.val])],
                            d, types, k + 1,
                            Append(out, <<"Loaded model", types[k]>>))

\* The try block of load_models (lines 31-54): [exc, me, out], me being the
\* object as the block left it
load_try(me0, d) ==
    LET meta == json_load(d)
        me1 == [me0 EXCEPT !.metadata = meta.val]
        me2 == [me1 EXCEPT !.feature_columns = meta.val.feature_columns,
                           !.attack_types = meta.val.attack_types]
        loop == load_loop(me2, d, meta.val.model_types, 1, <<>>)
        scaler == joblib_load(d.scaler, d.content.scaler)
        me3 == [loop.me EXCEPT !.scaler = scaler.val]
        encoder == joblib_load(d.label_encoder, Encoder(d.content.manifest.attack_types))
        me4 == [me3 EXCEPT !.label_encoder = encoder.val]
    IN  IF meta.exc # NoExc THEN [exc |-> meta.exc, me |-> me0, out |-> <<>>]
        ELSE IF d.metadata = "incomplete" THEN [exc |-> "KeyError", me |-> me1, out |-> <<>>]
        ELSE IF loop.exc # NoExc THEN loop
        ELSE IF scaler.exc # NoExc THEN [exc |-> scaler.exc, me |-> loop.me, out |-> loop.out]
        ELSE IF encoder.exc # NoExc THEN [exc |-> encoder.exc, me |-> me3, out |-> loop.out]
        ELSE [exc |-> NoExc, me |-> me4,
              out |-> Append(loop.out, <<"Successfully loaded models version", me0.model_version>>)]

\* A variant of load_models whose except clause prints and does not re-raise
load_models_swallowing(me0, d) ==
    LET r == load_try(me0, d)
    IN  [exc |-> NoExc, me |-> r.me,
         out |-> IF r.exc = NoExc THEN r.out
                 ELSE Append(r.out, <<"Error loading models:", r.exc>>)]

\* load_models: the except clause (lines 56-58) prints and re-raises
load_models(me0, d) ==
    LET r == load_try(me0, d)
    IN  IF r.exc = NoExc THEN r
        ELSE [exc |-> r.exc, me |-> r.me, out |-> Append(r.out, <<"Error loading models:", r.exc>>)]

\* CyberAttackPredictor(model_version): the caller holds an object only when
\* __init__ returns; [exc, me, out]
__init__(model_version, d) == load_models(new_object(model_version), d)

-----------------------------------------------------------------------------
(* The pickled objects at work.  What a classifier answers for a vector is *)
(* the environment of a call: env.exc names the method that raises, if     *)
(* any, and env.proba is the distribution, in hundredths.                  *)

\* StandardScaler.transform on a 1 x n array
scaler_transform(scaler, vector) ==
    IF scaler = None THEN Raise("AttributeError")
    ELSE IF Len(vector) # scaler.n_features_in_ THEN Raise("ValueError: n_features")
    ELSE Ok([i \in 1..Len(vector) |-> vector[i] - scaler.mean_[i]])

\* np.argmax, as an index from 0: the first position of the maximum
argmax(p) == (CHOOSE i \in 1..Len(p) :
                 /\ \A j \in 1..Len(p) : p[j] <= p[i]
                 /\ \A j \in 1..(i - 1) : p[j] < p[i]) - 1

\* A variant of np_max that reads the first entry
np_first(p) == p[1]

\* np.max
np_max(p) == p[argmax(p) + 1]

\* model.predict(x)[0]: the class index of the largest probability
model_predict(model, x, env) ==
    IF env.exc = "predict" THEN Raise("scoring failed in predict")
    ELSE Ok(argmax(env.proba))

\* model.predict_proba(x)[0]
model_predict_proba(model, x, env) ==
    IF env.exc = "predict_proba" THEN Raise("scoring failed in predict_proba")
    ELSE Ok(env.proba)

\* create_ensemble: VotingClassifier over the two tuned classifiers, soft
\* voting, no weights
create_ensemble ==
    [kind |-> "VotingClassifier", voting |-> "soft", weights |-> None,
     estimators |-> <<"random_forest", "xgboost">>]

RECURSIVE column_sum(_, _, _)
column_sum(probas, c, m) ==
    IF m > Len(probas) THEN 0 ELSE probas[m][c] + column_sum(probas, c, m + 1)

\* A variant of the vote that answers with the first member alone
voting_first_member(probas) == probas[1]

\* VotingClassifier.predict_proba with voting = "soft" and no weights:
\* np.average over the members, class by class.  probas[m] is what member
\* m answers, in hundredths.
voting_predict_proba(probas) ==
    [c \in 1..Len(probas[1]) |-> column_sum(probas, c, 1) \div Len(probas)]

\* VotingClassifier.predict with voting = "soft": np.argmax of predict_proba
voting_predict(probas) == argmax(voting_predict_proba(probas))

\* LabelEncoder.inverse_transform([i])[0]
inverse_transform(encoder, i) ==
    IF encoder = None THEN Raise("AttributeError")
    ELSE IF i < 0 \/ i >= Len(encoder.classes_) THEN Raise("ValueError: unseen labels")
    ELSE Ok(encoder.classes_[i + 1])

-----------------------------------------------------------------------------
(* _determine_risk_level, confidence in hundredths *)

high_risk_attacks == {"sqli", "xss", "command_injection", "web_shell", "xxe"}

\* A variant of _determine_risk_level whose comparisons are strict
_determine_risk_level_strict(attack_type, confidence) ==
    IF attack_type = "benign" THEN "low"
    ELSE IF attack_type \in high_risk_attacks
         THEN IF confidence > UpperThreshold THEN "critical"
              ELSE IF confidence > LowerThreshold THEN "high"
              ELSE "medium"
         ELSE IF confidence > UpperThreshold THEN "high"
              ELSE IF confidence > LowerThreshold THEN "medium"
              ELSE "low"

_determine_risk_level(attack_type, confidence) ==
    IF attack_type = "benign" THEN "low"
    ELSE IF attack_type \in high_risk_attacks
         THEN IF confidence >= UpperThreshold THEN "critical"
              ELSE IF confidence >= LowerThreshold THEN "high"
              ELSE "medium"
         ELSE IF confidence >= UpperThreshold THEN "high"
              ELSE IF confidence >= LowerThreshold THEN "medium"
              ELSE "low"

-----------------------------------------------------------------------------
(* predict *)

\* A variant of the error dict that leaves the timestamp out
ErrorResult_untimed(url, error, now) == [url |-> url, error |-> error]

\* The dict of lines 211-215
ErrorResult(url, error, now) == [url |-> url, error |-> error, timestamp |-> now]

\* What predict leaves behind: [ret |-> the dict returned, step |-> the
\* pipeline step whose exception the except clause caught ("none" on
\* success), extract_exc |-> what extract_features caught, model |-> the name
\* looked up, out |-> the lines printed].
extract_out(ex) ==
    IF ex.exc = NoExc THEN <<>> ELSE <<(<<"Error extracting features:", ex.exc>>)>>

\* The except clause of predict (lines 209-215)
predict_failed(url, model_type, now, ex, step, exc) ==
    [ret |-> ErrorResult(url, exc, now), step |-> step,
     extract_exc |-> ex.exc, model |-> model_type,
     out |-> Append(extract_out(ex), <<"Prediction error:", exc>>)]

\* dict of lines 184-187: the probability of every class index, by label
all_probabilities(encoder, probabilities) ==
    LET n == Len(probabilities)
        label(i) == inverse_transform(encoder, i).val
    IN  [name \in {label(i) : i \in 0..(n - 1)} |->
            probabilities[1 + CHOOSE i \in 0..(n - 1) :
                /\ label(i) = name
                /\ \A j \in (i + 1)..(n - 1) : label(j) # name]]

\* predict from line 180 on: decoding, risk level, the result
predict_decoded(me, url, model_type, now, ex, probabilities, attack_type) ==
    IF attack_type.exc # NoExc
    THEN predict_failed(url, model_type, now, ex, "decode", attack_type.exc)
    ELSE IF \E i \in 0..(Len(probabilities) - 1) :
                inverse_transform(me.label_encoder, i).exc # NoExc
    THEN predict_failed(url, model_type, now, ex, "decode", "ValueError: unseen labels")
    ELSE [ret |-> [url |-> url,
                   predicted_attack_type |-> attack_type.val,
                   confidence |-> np_max(probabilities),
                   risk_level |-> _determine_risk_level(attack_type.val, np_max(probabilities)),
                   all_probabilities |-> all_probabilities(me.label_encoder, probabilities),
                   features |-> ex.val,
                   model_used |-> model_type,
                   model_version |-> me.model_version,
                   processing_time_ms |-> (now - now) * 1000,
                   timestamp |-> now],
          step |-> "none", extract_exc |-> ex.exc, model |-> model_type,
          out |-> extract_out(ex)]

\* predict, lines 176-177 done
predict_scored(me, url, model_type, now, ex, prediction, probabilities) ==
    IF prediction.exc # NoExc
    THEN predict_failed(url, model_type, now, ex, "score", prediction.exc)
    ELSE IF probabilities.exc # NoExc
    THEN predict_failed(url, model_type, now, ex, "score", probabilities.exc)
    ELSE predict_decoded(me, url, model_type, now, ex, probabilities.val,
                         inverse_transform(me.label_encoder, prediction.val))

\* predict, line 173: the subscript raises KeyError for a name not loaded
predict_lookup(me, url, model_type, env, now, ex, x) ==
    IF model_type \notin DOMAIN me.models
    THEN predict_failed(url, model_type, now, ex, "lookup", "KeyError: ensemble")
    ELSE predict_scored(me, url, model_type, now, ex,
                        model_predict(me.models[model_type], x, env),
                        model_predict_proba(me.models[model_type], x, env))

\* predict, lines 170-171: the fallback to the ensemble
predict_scaled(me, url, model_type, env, now, ex, scaled) ==
    IF scaled.exc # NoExc
    THEN predict_failed(url, model_type, now, ex, "scale", scaled.exc)
    ELSE predict_lookup(me, url,
                        IF model_type \notin DOMAIN me.models THEN "ensemble" ELSE model_type,
                        env, now, ex, scaled.val)

\* A variant of feature_vector that marks an absent feature with -1
feature_vector_marking(me, features) ==
    [i \in 1..Len(me.feature_columns) |-> Get(features, me.feature_columns[i], 0 - 1)]

\* The loop of lines 161-163: features.get(col, 0) for col in feature_columns
feature_vector(me, features) ==
    [i \in 1..Len(me.feature_columns) |-> Get(features, me.feature_columns[i], 0)]

\* predict, lines 161-167: the vector in feature_columns order, scaled.  The
\* vector and what the scaler made of it are kept with what predict leaves
\* behind.
predict_vector(me, url, model_type, env, now, ex) ==
    Update(predict_scaled(me, url, model_type, env, now, ex,
                          scaler_transform(me.scaler, feature_vector(me, ex.val))),
           [vector |-> feature_vector(me, ex.val),
            scaled |-> scaler_transform(me.scaler, feature_vector(me, ex.val))])

\* The body of predict; now is what datetime.now() reads during the call
predict_run(me, url, model_type, env, now) ==
    predict_vector(me, url, model_type, env, now, extract_run(me, url, NoDict))

predict(me, url, model_type, env, now) == predict_run(me, url, model_type, env, now).ret

\* A variant of get_model_info that reports the model names of the metadata
get_model_info_listed(me) ==
    [version |-> me.model_version,
     available_models |-> Range(me.metadata.model_types),
     feature_columns |-> me.feature_columns,
     attack_types |-> me.attack_types,
     metadata |-> me.metadata]

\* get_model_info
get_model_info(me) ==
    [version |-> me.model_version,
     available_models |-> DOMAIN me.models,
     feature_columns |-> me.feature_columns,
     attack_types |-> me.attack_types,
     metadata |-> me.metadata]

\* A variant of the append that puts the newest result first
batch_prepend(results, result) == <<result>> \o results

\* results.append(result)
batch_append(results, result) == Append(results, result)

\* batch_predict, one turn of its loop (lines 244-246) on the locals b
batch_step(b, me, env, now) ==
    LET run == predict_run(me, b.urls[b.i], b.model_type, env, now)
    IN  [b EXCEPT !.results = batch_append(@, run.ret),
                  !.i = @ + 1,
                  !.runs = Append(@, [env |-> env, now |-> now, step |-> run.step])]

-----------------------------------------------------------------------------
(* predict and batch_predict statement by statement, on the locals f of one  *)
(* call.  f.pc is the statement the call is at; me is the shared object.     *)

\* The locals of a call that has not run yet
NewFrame ==
    [pc |-> "head", i |-> 1, results |-> <<>>, envs |-> <<>>,
     url |-> <<>>, model_type |-> "", start_time |-> 0,
     features |-> Ok(NoDict), vector |-> <<>>, scaled |-> <<>>,
     prediction |-> 0, probabilities |-> <<>>,
     env |-> [exc |-> NoExc, proba |-> <<>>], ret |-> None]

\* The except clause of predict on the locals f
step_except(f, exc, now) == [f EXCEPT !.ret = ErrorResult(f.url, exc, now), !.pc = "return"]

\* for url in urls: result = self.predict(url, model_type), up to line 155;
\* a plain predict call is the loop run once
step_head(f, call, now) ==
    IF f.i > Len(call.urls) THEN [f EXCEPT !.pc = "done"]
    ELSE [NewFrame EXCEPT !.pc = "extract", !.i = f.i, !.results = f.results,
                          !.envs = f.envs, !.url = call.urls[f.i],
                          !.model_type = call.model_type, !.start_time = now]

\* line 158
step_extract(me, f) ==
    [f EXCEPT !.features = extract_run(me, f.url, NoDict), !.pc = "vector"]

\* lines 161-163
step_vector(me, f) ==
    [f EXCEPT !.vector = feature_vector(me, f.features.val), !.pc = "scale"]

\* lines 166-167
step_scale(me, f, now) ==
    IF scaler_transform(me.scaler, f.vector).exc # NoExc
    THEN step_except(f, scaler_transform(me.scaler, f.vector).exc, now)
    ELSE [f EXCEPT !.scaled = scaler_transform(me.scaler, f.vector).val, !.pc = "lookup"]

\* lines 170-173
step_lookup(me, f, now) ==
    IF f.model_type \in DOMAIN me.models THEN [f EXCEPT !.pc = "score"]
    ELSE IF "ensemble" \in DOMAIN me.models
    THEN [f EXCEPT !.model_type = "ensemble", !.pc = "score"]
    ELSE step_except([f EXCEPT !.model_type = "ensemble"], "KeyError: ensemble", now)

\* lines 176-177
step_score(me, f, env, now) ==
    IF model_predict(me.models[f.model_type], f.scaled, env).exc # NoExc
    THEN step_except([f EXCEPT !.env = env],
                     model_predict(me.models[f.model_type], f.scaled, env).exc, now)
    ELSE IF model_predict_proba(me.models[f.model_type], f.scaled, env).exc # NoExc
    THEN step_except([f EXCEPT !.env = env],
                     model_predict_proba(me.models[f.model_type], f.scaled, env).exc, now)
    ELSE [f EXCEPT !.env = env,
                   !.prediction = model_predict(me.models[f.model_type], f.scaled, env).val,
                   !.probabilities = model_predict_proba(me.models[f.model_type], f.scaled, env).val,
                   !.pc = "decode"]

\* lines 180-207
step_decode(me, f, now) ==
    [f EXCEPT !.ret = predict_decoded(me, f.url, f.model_type, now, f.features,
                                      f.probabilities,
                                      inverse_transform(me.label_encoder, f.prediction)).ret,
              !.pc = "return"]

\* results.append(result), line 246; predict returns to its caller
step_return(f) ==
    [NewFrame EXCEPT !.results = batch_append(f.results, f.ret),
                     !.envs = Append(f.envs, f.env), !.i = f.i + 1]

\* A variant of the locals in which every call works on the locals of the
\* first call
locals_shared(ts, t) == ts[1].locals

\* The locals of the call t: every call has its own
locals(ts, t) == ts[t].locals

-----------------------------------------------------------------------------
(* Inputs *)

UrlEmpty == <<>>
UrlXss == <<"h", "t", "t", "p", "s", ":", "/", "/", "v", "u", "l", "n", "e", "r", "a", "b", "l", "e", ".", "c", "o", "m", "/", "s", "e", "a", "r", "c", "h", "?", "q", "=", "<", "s", "c", "r", "i", "p", "t", ">", "a", "l", "e", "r", "t", "(", "1", ")", "<", "/", "s", "c", "r", "i", "p", "t", ">">>
UrlNormal == <<"h", "t", "t", "p", "s", ":", "/", "/", "n", "o", "r", "m", "a", "l", "-", "s", "i", "t", "e", ".", "c", "o", "m", "/", "a", "b", "o", "u", "t", "-", "u", "s">>
UrlBadIPv6 == <<"h", "t", "t", "p", ":", "/", "/", "[">>

Urls == {UrlEmpty, UrlXss, UrlNormal, UrlBadIPv6}

RequestedModels == {"ensemble", "random_forest", "xgboost", "no_such_model"}

\* What a classifier may answer
Answers ==
    { [exc |-> NoExc, proba |-> <<99, 1, 0>>],
      [exc |-> NoExc, proba |-> <<5, 95, 0>>],
      [exc |-> NoExc, proba |-> <<25, 75, 0>>],
      [exc |-> NoExc, proba |-> <<50, 50, 0>>],
      [exc |-> NoExc, proba |-> <<10, 20, 70>>],
      [exc |-> NoExc, proba |-> <<10, 20, 30, 40>>],
      [exc |-> "predict", proba |-> <<5, 95, 0>>],
      [exc |-> "predict_proba", proba |-> <<5, 95, 0>>] }

Idle == [pc |-> "idle"]
Nothing == [op |-> "none"]

\* The calls that may run side by side, none of them started
Threads == 1..NumCalls
NoCall == [op |-> "none", urls |-> <<>>, model_type |-> ""]
NoThreads ==
    [t \in Threads |-> [call |-> NoCall, locals |-> [NewFrame EXCEPT !.pc = "idle"]]]

-----------------------------------------------------------------------------
(* Actions *)

\* predictor = CyberAttackPredictor(): the object exists for the caller only
\* when __init__ returns
Construct ==
    /\ constructed = "no"
    /\ LET r == __init__("1.0.0", disk)
       IN  /\ constructed' = IF r.exc = NoExc THEN "ok" ELSE "raised"
           /\ self' = IF r.exc = NoExc THEN r.me ELSE None
           /\ last' = [op |-> "__init__", exc |-> r.exc, out |-> r.out]
    /\ UNCHANGED <<disk, clock, batch, threads>>

Ready == constructed = "ok" /\ last = Nothing /\ batch = Idle

\* predictor.predict(url, model_type)
Predict ==
    /\ Ready
    /\ \E url \in Urls, model_type \in RequestedModels, env \in Answers :
          LET run == predict_run(self, url, model_type, env, clock)
          IN  last' = [op |-> "predict", url |-> url, model_type |-> model_type,
                       env |-> env, now |-> clock, ret |-> run.ret,
                       step |-> run.step, extract_exc |-> run.extract_exc,
                       out |-> run.out, vector |-> run.vector, scaled |-> run.scaled]
    /\ UNCHANGED <<disk, constructed, self, clock, batch, threads>>

\* The additional_features a caller may pass (NoDict for None)
Additional == {NoDict, [extra |-> 1]}

\* predictor.extract_features(url, additional_features)
ExtractFeatures ==
    /\ Ready
    /\ \E url \in Urls, additional \in Additional :
          LET run == extract_run(self, url, additional)
          IN  last' = [op |-> "extract_features", url |-> url,
                       additional |-> additional, ret |-> run.val, exc |-> run.exc]
    /\ UNCHANGED <<disk, constructed, self, clock, batch, threads>>

\* predictor.get_model_info()
GetModelInfo ==
    /\ Ready
    /\ last' = [op |-> "get_model_info", ret |-> get_model_info(self)]
    /\ UNCHANGED <<disk, constructed, self, clock, batch, threads>>

\* The caller is done with what the last call returned
Observe ==
    /\ last # Nothing
    /\ last' = Nothing
    /\ UNCHANGED <<disk, constructed, self, clock, batch, threads>>

\* Time passes
Tick ==
    /\ clock < MaxClock
    /\ clock' = clock + 1
    /\ UNCHANGED <<disk, constructed, self, last, batch, threads>>

Init ==
    /\ disk \in Disks
    /\ constructed = "no"
    /\ self = None
    /\ clock = 0
    /\ last = Nothing
    /\ batch = Idle
    /\ threads = NoThreads

Next ==
    \/ Construct
    \/ Predict
    \/ ExtractFeatures
    \/ GetModelInfo
    \/ Observe
    \/ Tick

Spec == Init /\ [][Next]_vars

-----------------------------------------------------------------------------
(* The helpers called on their own, and batch_predict *)

\* The labels of the trainer (ml_training.py lines 41-45 and 56) and one
\* label no rule names
AttackTypes ==
    {"sqli", "xss", "directory_traversal", "command_injection", "ssrf",
     "file_inclusion", "credential_stuffing", "brute_force",
     "http_parameter_pollution", "xxe", "web_shell", "typosquatting",
     "benign", "unlisted_label"}

\* Confidences, in hundredths
Confidences == 0..100

\* URLs made of the six common patterns: the patterns numbered in mask, in
\* lower or in upper case, each after a filler character
PatternTokens == <<<<"h", "t", "t", "p", "s">>, <<"h", "t", "t", "p">>, <<"w", "w", "w", ".">>, <<".", "c", "o", "m">>, <<".", "o", "r", "g">>, <<".", "n", "e", "t">>>>
PatternTokensUpper == <<<<"H", "T", "T", "P", "S">>, <<"H", "T", "T", "P">>, <<"W", "W", "W", ".">>, <<".", "C", "O", "M">>, <<".", "O", "R", "G">>, <<".", "N", "E", "T">>>>

RECURSIVE compose(_, _, _)
compose(mask, upper, k) ==
    IF k > Len(PatternTokens) THEN <<>>
    ELSE (IF k \in mask
          THEN <<"x">> \o (IF upper THEN PatternTokensUpper[k] ELSE PatternTokens[k])
          ELSE <<>>) \o compose(mask, upper, k + 1)

PatternUrls == {compose(mask, upper, 1) : mask \in SUBSET (1..Len(PatternTokens)), upper \in BOOLEAN}

UrlAllSix == <<"H", "T", "T", "P", "S", ":", "/", "/", "W", "W", "W", ".", "a", ".", "c", "o", "m", ".", "o", "r", "g", ".", "n", "e", "t">>

\* predictor._determine_risk_level(attack_type, confidence)
DetermineRiskLevel ==
    /\ Ready
    /\ \E attack_type \in AttackTypes, confidence \in Confidences :
          last' = [op |-> "_determine_risk_level", attack_type |-> attack_type,
                   confidence |-> confidence,
                   ret |-> _determine_risk_level(attack_type, confidence)]
    /\ UNCHANGED <<disk, constructed, self, clock, batch, threads>>

\* predictor._calculate_frequency_score(url)
CalculateFrequencyScore ==
    /\ Ready
    /\ \E url \in PatternUrls \cup Urls \cup {UrlAllSix} :
          last' = [op |-> "_calculate_frequency_score", url |-> url,
                   ret |-> _calculate_frequency_score(url)]
    /\ UNCHANGED <<disk, constructed, self, clock, batch, threads>>

\* Two extract_features calls whose results the caller compares
ExtractPair ==
    /\ Ready
    /\ \E first \in Urls, second \in Urls :
          last' = [op |-> "extract_pair", first |-> first, second |-> second,
                   ret1 |-> extract_features(self, first, NoDict),
                   ret2 |-> extract_features(self, second, NoDict)]
    /\ UNCHANGED <<disk, constructed, self, clock, batch, threads>>

\* Texts for _calculate_entropy: empty, one character, one character
\* repeated, and mixed
Texts ==
    {<<>>, <<"a">>, <<"a", "a", "a">>, <<"/", "/">>, <<"a", "b">>, <<"a", "a", "b">>,
     UrlNormal}

\* predictor._calculate_entropy(text)
CalculateEntropy ==
    /\ Ready
    /\ \E text \in Texts :
          last' = [op |-> "_calculate_entropy", text |-> text,
                   ret |-> _calculate_entropy(text)]
    /\ UNCHANGED <<disk, constructed, self, clock, batch, threads>>

\* URLs for _count_suspicious_keywords: one keyword three times, in lower
\* and in mixed case, keywords that overlap, shell metacharacters
UrlAdmin == <<"h", "t", "t", "p", ":", "/", "/", "a", "/", "a", "d", "m", "i", "n", "/", "a", "d", "m", "i", "n", "/", "a", "d", "m", "i", "n">>
UrlAdminCased == <<"h", "t", "t", "p", ":", "/", "/", "a", "/", "A", "D", "M", "I", "N", "/", "A", "d", "m", "i", "n", "/", "a", "d", "m", "i", "n">>
UrlJavascript == <<"j", "a", "v", "a", "s", "c", "r", "i", "p", "t", ":", "a", "l", "e", "r", "t">>
UrlShell == <<"a", "?", "x", "=", "1", "&", "y", "=", "2", "&", "z", "=", "$", "(", "i", "d", ")", ";", ";">>

KeywordUrls == Urls \cup {UrlAdmin, UrlAdminCased, UrlJavascript, UrlShell, UrlAllSix}

\* predictor._count_suspicious_keywords(url)
CountSuspiciousKeywords ==
    /\ Ready
    /\ \E url \in KeywordUrls :
          last' = [op |-> "_count_suspicious_keywords", url |-> url,
                   ret |-> _count_suspicious_keywords(url)]
    /\ UNCHANGED <<disk, constructed, self, clock, batch, threads>>

\* What the two members of the ensemble may answer for one vector, in
\* hundredths (even, so that the average of two is a whole number)
MemberAnswers ==
    {<<20, 80>>, <<60, 40>>, <<20, 80, 0>>, <<60, 40, 0>>, <<40, 60, 0>>,
     <<50, 50, 0>>, <<0, 50, 50>>, <<10, 20, 70>>, <<90, 10, 0>>}

\* predictor.predict(url, "ensemble"): the loaded ensemble answers with the
\* vote of its members
EnsemblePredict ==
    /\ Ready
    /\ \E url \in {UrlEmpty, UrlXss}, rf \in MemberAnswers, xgb \in MemberAnswers :
          /\ Len(rf) = Len(xgb)
          /\ LET members == [m \in 1..Len(create_ensemble.estimators) |->
                                IF m = 1 THEN rf ELSE xgb]
                 env == [exc |-> NoExc, proba |-> voting_predict_proba(members)]
                 run == predict_run(self, url, "ensemble", env, clock)
             IN  last' = [op |-> "ensemble_predict", url |-> url, members |-> members,
                          prediction |-> voting_predict(members),
                          ret |-> run.ret, step |-> run.step]
    /\ UNCHANGED <<disk, constructed, self, clock, batch, threads>>

\* Every file of the version is on disk and readable
AllOnDisk(d) ==
    /\ d.metadata = "ok"
    /\ d.scaler = "ok"
    /\ d.label_encoder = "ok"
    /\ \A m \in Range(ModelNames) : d.model_file[m] = "ok"

InitHelpers ==
    /\ disk \in {d \in Disks : AllOnDisk(d)}
    /\ constructed = "no"
    /\ self = None
    /\ clock = 0
    /\ last = Nothing
    /\ batch = Idle
    /\ threads = NoThreads

NextHelpers ==
    \/ Construct
    \/ DetermineRiskLevel
    \/ CalculateFrequencyScore
    \/ ExtractPair
    \/ CalculateEntropy
    \/ CountSuspiciousKeywords
    \/ EnsemblePredict
    \/ Observe

SpecHelpers == InitHelpers /\ [][NextHelpers]_vars

\* The URLs, model names and classifier answers of the batches
BatchUrlSet == {UrlEmpty, UrlXss, UrlBadIPv6}
BatchModels == {"random_forest", "no_such_model"}
BatchAnswers ==
    { [exc |-> NoExc, proba |-> <<99, 1, 0>>],
      [exc |-> NoExc, proba |-> <<5, 95, 0>>],
      [exc |-> "predict", proba |-> <<5, 95, 0>>] }

SeqsUpTo(S, n) == UNION {[1..k -> S] : k \in 0..n}

\* predictor.batch_predict(urls, model_type): results = []
BatchPredict ==
    /\ Ready
    /\ \E urls \in SeqsUpTo(BatchUrlSet, MaxBatch), model_type \in BatchModels :
          batch' = [pc |-> "loop", urls |-> urls, model_type |-> model_type,
                    i |-> 1, results |-> <<>>, runs |-> <<>>]
    /\ UNCHANGED <<disk, constructed, self, clock, last, threads>>

\* One turn of the loop of batch_predict
BatchTurn ==
    /\ batch.pc = "loop"
    /\ batch.i <= Len(batch.urls)
    /\ \E env \in BatchAnswers : batch' = batch_step(batch, self, env, clock)
    /\ UNCHANGED <<disk, constructed, self, clock, last, threads>>

\* return results
BatchReturn ==
    /\ batch.pc = "loop"
    /\ batch.i > Len(batch.urls)
    /\ last' = [op |-> "batch_predict", urls |-> batch.urls,
                model_type |-> batch.model_type, runs |-> batch.runs,
                ret |-> batch.results]
    /\ batch' = Idle
    /\ UNCHANGED <<disk, constructed, self, clock, threads>>

InitBatch ==
    /\ disk \in {d \in Disks :
                    /\ d.metadata = "ok" /\ d.scaler = "ok" /\ d.label_encoder = "ok"
                    /\ d.model_file["random_forest"] = "ok"
                    /\ d.model_file["xgboost"] = "ok"
                    /\ d.model_file["ensemble"] # "corrupt"
                    /\ d.content.manifest.feature_columns = TrainedColumns}
    /\ constructed = "no"
    /\ self = None
    /\ clock = 0
    /\ last = Nothing
    /\ batch = Idle
    /\ threads = NoThreads

NextBatch ==
    \/ Construct
    \/ BatchPredict
    \/ BatchTurn
    \/ BatchReturn
    \/ Predict
    \/ ExtractFeatures
    \/ GetModelInfo
    \/ Observe
    \/ Tick

SpecBatch == InitBatch /\ [][NextBatch]_vars

-----------------------------------------------------------------------------
(* Calls on one predictor running side by side: each step of a call is one  *)
(* statement of predict or batch_predict, and the steps of the calls         *)
(* interleave freely.                                                        *)

ThreadAnswers ==
    { [exc |-> NoExc, proba |-> <<5, 95, 0>>],
      [exc |-> "predict", proba |-> <<5, 95, 0>>] }

\* The calls a thread may make: predict(url, model_type) or
\* batch_predict(urls, model_type)
ThreadCalls ==
    { [op |-> "predict", urls |-> <<UrlEmpty>>, model_type |-> "random_forest"],
      [op |-> "batch_predict", urls |-> <<UrlEmpty, UrlBadIPv6>>,
       model_type |-> "no_such_model"] }

ThreadAt(t, pc) == constructed = "ok" /\ locals(threads, t).pc = pc

ThreadMove(t, f) ==
    /\ threads' = [threads EXCEPT ![t].locals = f]
    /\ UNCHANGED <<disk, constructed, self, clock, last, batch>>

ThreadCall(t) ==
    /\ constructed = "ok"
    /\ threads[t].locals.pc = "idle"
    /\ \E call \in ThreadCalls :
          threads' = [threads EXCEPT ![t] = [call |-> call, locals |-> NewFrame]]
    /\ UNCHANGED <<disk, constructed, self, clock, last, batch>>

ThreadHead(t) ==
    /\ ThreadAt(t, "head")
    /\ ThreadMove(t, step_head(locals(threads, t), threads[t].call, clock))

ThreadExtract(t) ==
    /\ ThreadAt(t, "extract")
    /\ ThreadMove(t, step_extract(self, locals(threads, t)))

ThreadVector(t) ==
    /\ ThreadAt(t, "vector")
    /\ ThreadMove(t, step_vector(self, locals(threads, t)))

ThreadScale(t) ==
    /\ ThreadAt(t, "scale")
    /\ ThreadMove(t, step_scale(self, locals(threads, t), clock))

ThreadLookup(t) ==
    /\ ThreadAt(t, "lookup")
    /\ ThreadMove(t, step_lookup(self, locals(threads, t), clock))

ThreadScore(t) ==
    /\ ThreadAt(t, "score")
    /\ \E env \in ThreadAnswers :
          ThreadMove(t, step_score(self, locals(threads, t), env, clock))

ThreadDecode(t) ==
    /\ ThreadAt(t, "decode")
    /\ ThreadMove(t, step_decode(self, locals(threads, t), clock))

ThreadReturn(t) ==
    /\ ThreadAt(t, "return")
    /\ ThreadMove(t, step_return(locals(threads, t)))

\* The caller has taken what the call returned
ThreadDone(t) ==
    /\ threads[t].locals.pc = "done"
    /\ threads' = [threads EXCEPT ![t] = NoThreads[t]]
    /\ UNCHANGED <<disk, constructed, self, clock, last, batch>>

InitThreads ==
    /\ disk \in {d \in Disks :
                    /\ d.metadata = "ok" /\ d.scaler = "ok" /\ d.label_encoder = "ok"
                    /\ d.model_file["random_forest"] = "ok"
                    /\ d.model_file["xgboost"] = "ok"
                    /\ d.model_file["ensemble"] # "corrupt"
                    /\ d.content = TrainedBundle}
    /\ constructed = "no"
    /\ self = None
    /\ clock = 0
    /\ last = Nothing
    /\ batch = Idle
    /\ threads = NoThreads

NextThreads ==
    \/ Construct
    \/ \E t \in Threads : ThreadCall(t)
    \/ \E t \in Threads : ThreadHead(t)
    \/ \E t \in Threads : ThreadExtract(t)
    \/ \E t \in Threads : ThreadVector(t)
    \/ \E t \in Threads : ThreadScale(t)
    \/ \E t \in Threads : ThreadLookup(t)
    \/ \E t \in Threads : ThreadScore(t)
    \/ \E t \in Threads : ThreadDecode(t)
    \/ \E t \in Threads : ThreadReturn(t)
    \/ \E t \in Threads : ThreadDone(t)

SpecThreads == InitThreads /\ [][NextThreads]_vars

-----------------------------------------------------------------------------
(* Properties *)

SuccessKeys ==
    {"url", "predicted_attack_type", "confidence", "risk_level", "all_probabilities",
     "features", "model_used", "model_version", "processing_time_ms", "timestamp"}
ErrorKeys == {"url", "error", "timestamp"}

IsSuccess(r) == "error" \notin DOMAIN r

\* The files load_models cannot do without are readable
RequiredOk(d) ==
    /\ d.metadata = "ok"
    /\ d.scaler = "ok"
    /\ d.label_encoder = "ok"
    /\ \A m \in Range(d.content.manifest.model_types) : d.model_file[m] # "corrupt"

\* The classifiers of the manifest whose file is on disk
OnDisk(d) == {m \in Range(d.content.manifest.model_types) : d.model_file[m] # "missing"}

\* The steps of predict after the model lookup have nothing to raise
RestOfPipelineOk(me, env) ==
    /\ Len(me.feature_columns) = me.scaler.n_features_in_
    /\ env.exc = NoExc
    /\ Len(env.proba) <= Len(me.label_encoder.classes_)

\* C1: predict with a model name that is not loaded substitutes "ensemble"
\* and returns a success result with model_used = "ensemble"; the unknown
\* name alone never yields an ErrorResult, whatever bundle load accepted.
C1_UnknownModelFallsBack ==
    (last.op = "predict" /\ last.model_type \notin DOMAIN self.models
        /\ RestOfPipelineOk(self, last.env))
    => (IsSuccess(last.ret) /\ last.ret.model_used = "ensemble")

\* C3: every predict call returns exactly one dict, either a success result
\* (the ten success keys, no error key) or an ErrorResult with exactly url,
\* error and timestamp; a failure at scaling, lookup, scoring or decoding
\* gives the ErrorResult, and no result is both.
C3_OneResultNeverBoth ==
    last.op = "predict"
    => /\ DOMAIN last.ret \in {SuccessKeys, ErrorKeys}
       /\ last.ret.url = last.url
       /\ (last.step = "none") <=> (DOMAIN last.ret = SuccessKeys)
       /\ (last.step \in {"scale", "lookup", "score", "decode"})
              <=> (DOMAIN last.ret = ErrorKeys)
       /\ ~RestOfPipelineOk(self, last.env) => DOMAIN last.ret = ErrorKeys

\* C3 witness: a scoring exception came back as an ErrorResult
C3_Witness ==
    /\ last.op = "predict"
    /\ last.env.exc = "predict_proba"
    /\ last.step = "score"
    /\ DOMAIN last.ret = ErrorKeys

\* C4: loading is all or nothing: when the metadata, the scaler or the label
\* encoder is missing or unreadable, or a classifier file that exists is
\* unreadable, the constructor raises and no object exists; every call runs
\* on a completely loaded bundle.
C4_LoadAllOrNothing ==
    /\ constructed = "ok"
       => /\ RequiredOk(disk)
          /\ self.metadata = disk.content.manifest
          /\ self.scaler = disk.content.scaler
          /\ self.label_encoder.kind = "LabelEncoder"
    /\ (constructed # "no" /\ ~RequiredOk(disk)) => (constructed = "raised" /\ self = None)
    /\ last.op = "__init__" => ((last.exc # NoExc) <=> ~RequiredOk(disk))
    /\ last.op \in {"predict", "extract_features", "get_model_info"}
       => (constructed = "ok" /\ RequiredOk(disk))

\* C4 witness: the metadata and every classifier were read, the scaler file
\* is missing, and the constructor raised
C4_Witness ==
    /\ constructed = "raised"
    /\ last.op = "__init__"
    /\ disk.metadata = "ok"
    /\ OnDisk(disk) = Range(ModelNames)
    /\ disk.scaler = "missing"

\* C5 as stated: a classifier of the manifest that is absent on disk is
\* skipped with a warning and does not make load fail.
C5_SkippedWithWarning ==
    (last.op = "__init__" /\ last.exc = NoExc)
    => \A m \in Range(disk.content.manifest.model_types) \ OnDisk(disk) :
          \E k \in 1..Len(last.out) : last.out[k][2] = m

\* C5, amended: a classifier of the manifest that is absent on disk is
\* skipped without any message and does not make load fail; after a
\* successful load the available models are exactly the manifest names whose
\* file is on disk, and get_model_info reports them.
C5_MissingClassifierSkipped ==
    /\ (constructed # "no" /\ RequiredOk(disk)) => constructed = "ok"
    /\ constructed = "ok" => DOMAIN self.models = OnDisk(disk)
    /\ last.op = "get_model_info" => last.ret.available_models = OnDisk(disk)
    /\ (last.op = "__init__" /\ last.exc = NoExc)
       => {last.out[k] : k \in 1..Len(last.out)}
            = {<<"Loaded model", m>> : m \in OnDisk(disk)}
                \cup {<<"Successfully loaded models version", "1.0.0">>}

\* C5 witness: load succeeded although the ensemble file is absent
C5_Witness ==
    /\ last.op = "get_model_info"
    /\ disk.model_file["ensemble"] = "missing"
    /\ last.ret.available_models = {"random_forest", "xgboost"}

\* C8: extract_features never raises: when the URL decomposition or a
\* helper raises it returns exactly the feature_columns of the bundle, each
\* 0; a predict call whose extraction failed goes on to scoring, and returns
\* a success result unless a later step raises.
C8_ExtractionFailureAbsorbed ==
    /\ (last.op = "extract_features" /\ last.exc # NoExc)
       => /\ DOMAIN last.ret = Range(self.feature_columns)
          /\ \A k \in DOMAIN last.ret : last.ret[k] = 0
    /\ (last.op = "predict" /\ last.extract_exc # NoExc)
       => /\ last.step \in {"none", "scale", "lookup", "score", "decode"}
          /\ IsSuccess(last.ret)
             => /\ DOMAIN last.ret.features = Range(self.feature_columns)
                /\ \A k \in DOMAIN last.ret.features : last.ret.features[k] = 0
          /\ (RestOfPipelineOk(self, last.env)
                /\ ({last.model_type, "ensemble"} \cap DOMAIN self.models) # {})
             => IsSuccess(last.ret)

\* C8 witness: the URL decomposition raised and predict returned a success
C8_Witness ==
    /\ last.op = "predict"
    /\ last.url = UrlBadIPv6
    /\ last.extract_exc = "Invalid IPv6 URL"
    /\ IsSuccess(last.ret)

\* The thirteen names of the dict extract_features builds (lines 73-89)
ExtractorNames ==
    {"url_length", "domain_length", "path_length", "query_length",
     "special_char_count", "digit_count", "path_depth", "subdomain_count",
     "parameter_count", "encoded_chars_count", "frequency_score",
     "suspicious_keyword_count", "entropy"}

Distinct(seq) == Cardinality(Range(seq)) = Len(seq)

\* C9 as stated: for every URL and loaded bundle extract_features returns as
\* many entries as the bundle has feature_columns, all >= 0, with
\* frequency_score in [0,1], on the normal and on the failure path.
C9_LengthMatchesColumns ==
    last.op = "extract_features"
    => /\ Cardinality(DOMAIN last.ret) = Len(self.feature_columns)
       /\ \A k \in DOMAIN last.ret : last.ret[k] >= 0
       /\ "frequency_score" \in DOMAIN last.ret
       /\ last.ret["frequency_score"] \in 0..ScoreClamp

\* C9, amended: called without additional_features, extract_features returns
\* values that are all >= 0, with frequency_score (when present) in [0,1];
\* the keys are the thirteen fixed names on the normal path and the
\* feature_columns of the bundle on the failure path, so the number of
\* entries equals len(feature_columns) on the failure path when the column
\* names are distinct, and on the normal path when the bundle has exactly
\* those thirteen columns.
C9_EntriesPerPath ==
    (last.op = "extract_features" /\ last.additional = NoDict)
    => /\ \A k \in DOMAIN last.ret : last.ret[k] >= 0
       /\ "frequency_score" \in DOMAIN last.ret
          => last.ret["frequency_score"] \in 0..ScoreClamp
       /\ last.exc = NoExc => DOMAIN last.ret = ExtractorNames
       /\ last.exc # NoExc => DOMAIN last.ret = Range(self.feature_columns)
       /\ (Distinct(self.feature_columns)
             /\ (last.exc # NoExc \/ Range(self.feature_columns) = ExtractorNames))
          => Cardinality(DOMAIN last.ret) = Len(self.feature_columns)

\* C9 witness: the normal path on the bundle the trainer writes
C9_Witness ==
    /\ last.op = "extract_features"
    /\ last.additional = NoDict
    /\ last.exc = NoExc
    /\ self.feature_columns = TrainedColumns
    /\ Cardinality(DOMAIN last.ret) = Len(TrainedColumns)

\* C2: batch_predict over n URLs returns exactly n results, the result at
\* position i being the result of predict(urls[i], model_type): the order
\* of the input is kept, and an item that ends in a scoring exception holds
\* an ErrorResult at its position while every other position holds what
\* predict returns for it alone.
C2_BatchInOrder ==
    /\ batch.pc = "loop"
       => /\ Len(batch.results) = batch.i - 1
          /\ batch.i <= Len(batch.urls) + 1
          /\ \A k \in 1..Len(batch.results) : batch.results[k].url = batch.urls[k]
    /\ last.op = "batch_predict"
       => /\ Len(last.ret) = Len(last.urls)
          /\ \A k \in 1..Len(last.urls) :
                /\ last.ret[k] = predict(self, last.urls[k], last.model_type,
                                         last.runs[k].env, last.runs[k].now)
                /\ last.runs[k].env.exc # NoExc => DOMAIN last.ret[k] = ErrorKeys
                /\ (last.runs[k].env.exc = NoExc
                      /\ ({last.model_type, "ensemble"} \cap DOMAIN self.models) # {})
                   => IsSuccess(last.ret[k])

\* C2 witness: a batch of two whose first item ended in a scoring exception
\* and whose second item succeeded
C2_Witness ==
    /\ last.op = "batch_predict"
    /\ Len(last.urls) = 2
    /\ last.urls[1] # last.urls[2]
    /\ last.runs[1].step = "score"
    /\ DOMAIN last.ret[1] = ErrorKeys
    /\ IsSuccess(last.ret[2])
    /\ last.ret[2].url = last.urls[2]

\* The policy table of the risk levels: the row of an attack type, the
\* column of a confidence
RiskRow(attack_type) ==
    IF attack_type = "benign" THEN <<"low", "low", "low">>
    ELSE IF attack_type \in {"sqli", "xss", "command_injection", "web_shell", "xxe"}
    THEN <<"critical", "high", "medium">>
    ELSE <<"high", "medium", "low">>
RiskColumn(confidence) ==
    IF confidence >= UpperThreshold THEN 1 ELSE IF confidence >= LowerThreshold THEN 2 ELSE 3

\* C6: _determine_risk_level answers, for every attack type and every
\* confidence in [0,1], what the policy table says; the boundaries 0.9 and
\* 0.7 fall in the higher band.
C6_RiskPolicyTable ==
    last.op = "_determine_risk_level"
    => /\ last.ret = RiskRow(last.attack_type)[RiskColumn(last.confidence)]
       /\ last.ret \in {"low", "medium", "high", "critical"}
       /\ (last.attack_type = "sqli" /\ last.confidence = UpperThreshold)
          => last.ret = "critical"
       /\ (last.attack_type = "sqli" /\ last.confidence = LowerThreshold)
          => last.ret = "high"
       /\ (last.attack_type = "typosquatting" /\ last.confidence = UpperThreshold)
          => last.ret = "high"
       /\ (last.attack_type = "typosquatting" /\ last.confidence = LowerThreshold)
          => last.ret = "medium"

\* C6 witness: a high-risk type exactly on the upper boundary
C6_Witness ==
    /\ last.op = "_determine_risk_level"
    /\ last.attack_type = "xss"
    /\ last.confidence = UpperThreshold
    /\ last.ret = "critical"

\* C7: the script-injection URL of the end-to-end scenario gets a
\* special_char_count and a suspicious_keyword_count that are both
\* strictly greater than those of the plain URL.
C7_AttackUrlCountsHigher ==
    (last.op = "extract_pair" /\ last.first = UrlXss /\ last.second = UrlNormal)
    => /\ {"special_char_count", "suspicious_keyword_count"}
              \subseteq (DOMAIN last.ret1 \cap DOMAIN last.ret2)
       /\ last.ret1["special_char_count"] > last.ret2["special_char_count"]
       /\ last.ret1["suspicious_keyword_count"] > last.ret2["suspicious_keyword_count"]

\* The number of common patterns found in the lower-cased URL
PatternsPresent(url) ==
    Cardinality({k \in 1..Len(common_patterns) : Contains(lower(url), common_patterns[k])})

\* C10 as stated: the score is 0.0 for a URL with none of the six patterns
\* and 1.0, the clamp value, for a URL with all six.
C10_AllSixGivesClamp ==
    last.op = "_calculate_frequency_score"
    => /\ PatternsPresent(last.url) = 0 => last.ret = 0
       /\ PatternsPresent(last.url) = Len(common_patterns) => last.ret = ScoreClamp

\* C10, amended: the score is 0.0 for a URL with none of the six patterns
\* and 0.6 for a URL with all six (matched case-insensitively); for every
\* URL it is 0.1 for each pattern present, which never reaches the clamp
\* at 1.0.
C10_TenthPerPattern ==
    last.op = "_calculate_frequency_score"
    => /\ PatternsPresent(last.url) = 0 => last.ret = 0
       /\ PatternsPresent(last.url) = Len(common_patterns) => last.ret = Len(common_patterns)
       /\ last.ret = PatternsPresent(last.url)
       /\ last.ret < ScoreClamp

\* C10 witness: an upper-case URL with all six patterns scored 0.6
C10_Witness ==
    /\ last.op = "_calculate_frequency_score"
    /\ last.url = UrlAllSix
    /\ last.ret = Len(common_patterns)

-----------------------------------------------------------------------------
\* C11: _calculate_entropy returns 0.0 for the empty string and for every
\* non-empty string whose characters are all identical, and raises for no
\* input string.
C11_EntropyZeroNeverRaises ==
    last.op = "_calculate_entropy" =>
        /\ last.ret.exc = NoExc
        /\ (Cardinality(Range(last.text)) <= 1 => last.ret = Ok(0))

-----------------------------------------------------------------------------
\* The keywords of the list, by position, that occur in the lower-cased URL
KeywordsPresent(url) ==
    {k \in 1..Len(suspicious_keywords) : Contains(lower(url), suspicious_keywords[k])}

\* C12: _count_suspicious_keywords returns the number of keywords of the
\* list that occur at least once in the lower-cased URL, whatever the number
\* of occurrences: 1 for a URL holding admin three times and no other
\* keyword, and never more than the length of the list.
C12_DistinctKeywordCount ==
    last.op = "_count_suspicious_keywords" =>
        /\ last.ret = Cardinality(KeywordsPresent(last.url))
        /\ last.ret <= Len(suspicious_keywords)
        /\ (last.url \in {UrlAdmin, UrlAdminCased} => last.ret = 1)

\* _count_suspicious_keywords has returned 1 for the URL with admin three times
C12_Witness ==
    /\ last.op = "_count_suspicious_keywords"
    /\ last.url = UrlAdminCased
    /\ Cardinality({i \in 1..(Len(last.url) - 4) :
            lower(SubSeq(last.url, i, i + 4)) = <<"a", "d", "m", "i", "n">>}) = 3
    /\ last.ret = 1

-----------------------------------------------------------------------------
\* The class indexes, from 0, at which the summed member probabilities are
\* largest
BestClasses(members) ==
    LET n == Len(members[1])
        total(c) == column_sum(members, c + 1, 1)
    IN  {c \in 0..(n - 1) : \A other \in 0..(n - 1) : total(other) <= total(c)}

\* C13: scoring with the ensemble is equal-weight soft voting: the
\* probability returned for each class is the arithmetic mean of the
\* members' probabilities for it, and the predicted class is the lowest
\* index among the classes of largest mean; members answering [0.2,0.8] and
\* [0.6,0.4] give [0.4,0.6] and class index 1.
C13_EnsembleSoftVoting ==
    (last.op = "ensemble_predict" /\ IsSuccess(last.ret)) =>
        LET members == last.members
            n == Len(members[1])
            label(c) == self.label_encoder.classes_[c + 1]
            best == BestClasses(members)
        IN  /\ DOMAIN last.ret.all_probabilities = {label(c) : c \in 0..(n - 1)}
            /\ \A c \in 0..(n - 1) :
                  Len(members) * last.ret.all_probabilities[label(c)]
                      = column_sum(members, c + 1, 1)
            /\ last.prediction \in best
            /\ \A c \in best : last.prediction <= c
            /\ last.ret.predicted_attack_type = label(last.prediction)
            /\ last.ret.model_used = "ensemble"
            /\ (members = <<(<<20, 80>>), (<<60, 40>>)>> =>
                  /\ last.ret.all_probabilities = [benign |-> 40, sqli |-> 60]
                  /\ last.prediction = 1)

\* The ensemble has scored the members [0.2,0.8] and [0.6,0.4]
C13_Witness ==
    /\ last.op = "ensemble_predict"
    /\ IsSuccess(last.ret)
    /\ last.members = <<(<<20, 80>>), (<<60, 40>>)>>
    /\ last.ret.confidence = 60

\* The ensemble has scored members whose average is a tie
C13_WitnessTie ==
    /\ last.op = "ensemble_predict"
    /\ IsSuccess(last.ret)
    /\ Cardinality(BestClasses(last.members)) = 2
    /\ last.prediction = 0

-----------------------------------------------------------------------------
\* C14: predict builds the raw vector position by position in the order of
\* feature_columns: position i holds what extract_features returned under
\* the name feature_columns[i], or 0 when it returned no such name; and for a
\* bundle written by the training pipeline that order is the order the
\* scaler was fitted on and the order saved in the metadata, so position i
\* is scaled with the statistics of feature_columns[i].
C14_VectorInColumnOrder ==
    last.op = "predict" =>
        LET columns == self.feature_columns
            features == extract_features(self, last.url, NoDict)
        IN  /\ Len(last.vector) = Len(columns)
            /\ \A i \in 1..Len(columns) :
                  last.vector[i] = IF columns[i] \in DOMAIN features
                                   THEN features[columns[i]] ELSE 0
            /\ IsSuccess(last.ret) => last.ret.features = features
            /\ disk.content = TrainedBundle =>
                  /\ columns = TrainedColumns
                  /\ self.metadata.feature_columns = columns
                  /\ self.scaler.feature_names_in_ = columns
                  /\ last.scaled.exc = NoExc
                  /\ \A i \in 1..Len(columns) :
                        last.scaled.val[i] = last.vector[i] - TrainingMeans[columns[i]]

\* predict has scaled a vector on the bundle of the training pipeline
C14_Witness ==
    /\ last.op = "predict"
    /\ disk.content = TrainedBundle
    /\ IsSuccess(last.ret)
    /\ Len(last.vector) = Len(TrainedColumns)
    /\ last.scaled.val[1] = last.vector[1] - TrainingMeans["url_length"]
    /\ last.scaled.val[13] = last.vector[13] - TrainingMeans["suspicious_keyword_count"]
    /\ last.scaled.val[1] # last.scaled.val[13]

\* predict has put 0 where the extractor returned no entry for a column
C14_WitnessAbsent ==
    /\ last.op = "predict"
    /\ \E i \in 1..Len(self.feature_columns) :
          /\ self.feature_columns[i] \notin DOMAIN extract_features(self, last.url, NoDict)
          /\ last.vector[i] = 0

-----------------------------------------------------------------------------
\* The object as load_models left it
Loaded(d) == __init__("1.0.0", d).me

\* C16: once load has succeeded, no predict, batch_predict, extract_features
\* or get_model_info call, successful or failing, with a known or an unknown
\* model name, changes the version, the loaded models, the scaler, the label
\* encoder, feature_columns or attack_types; get_model_info reports exactly
\* that version, those model names, feature_columns and attack_types.
C16_BundleNeverMutated ==
    constructed = "ok" =>
        /\ self = Loaded(disk)
        /\ (last.op = "get_model_info" =>
              /\ last.ret.version = Loaded(disk).model_version
              /\ last.ret.available_models = DOMAIN Loaded(disk).models
              /\ last.ret.feature_columns = Loaded(disk).feature_columns
              /\ last.ret.attack_types = Loaded(disk).attack_types)

\* batch_predict has returned, for an unknown model name on a bundle without
\* the ensemble, a batch of failures, and the object is as load left it
C16_Witness ==
    /\ last.op = "batch_predict"
    /\ last.model_type = "no_such_model"
    /\ Len(last.ret) = MaxBatch
    /\ \A k \in 1..Len(last.ret) : ~IsSuccess(last.ret[k])
    /\ "ensemble" \notin DOMAIN self.models
    /\ self = Loaded(disk)

\* get_model_info has reported a bundle loaded without the ensemble
C16_WitnessInfo ==
    /\ last.op = "get_model_info"
    /\ last.ret.available_models = {"random_forest", "xgboost"}
    /\ self = Loaded(disk)

-----------------------------------------------------------------------------
\* C17: in every success result confidence is the largest value of
\* all_probabilities and is the value all_probabilities holds for
\* predicted_attack_type, risk_level is _determine_risk_level of
\* predicted_attack_type and confidence, and model_used is a loaded model:
\* the requested name when it is loaded, ensemble otherwise.
C17_ResultFieldsConsistent ==
    (last.op = "predict" /\ IsSuccess(last.ret)) =>
        LET r == last.ret
            p == r.all_probabilities
        IN  /\ \A name \in DOMAIN p : p[name] <= r.confidence
            /\ r.predicted_attack_type \in DOMAIN p
            /\ p[r.predicted_attack_type] = r.confidence
            /\ r.risk_level = RiskRow(r.predicted_attack_type)[RiskColumn(r.confidence)]
            /\ r.risk_level = _determine_risk_level(r.predicted_attack_type, r.confidence)
            /\ r.model_used \in DOMAIN self.models
            /\ r.model_used = IF last.model_type \in DOMAIN self.models
                               THEN last.model_type ELSE "ensemble"

\* predict has returned a success whose largest probability is not at the
\* first class, for a name that is not loaded
C17_Witness ==
    /\ last.op = "predict"
    /\ IsSuccess(last.ret)
    /\ last.model_type = "no_such_model"
    /\ last.ret.model_used = "ensemble"
    /\ last.ret.predicted_attack_type = "typosquatting"
    /\ last.ret.confidence = 70
    /\ last.ret.risk_level = "medium"

-----------------------------------------------------------------------------
\* A result without its timestamp and its processing time
Timeless(r) == [k \in (DOMAIN r) \ {"timestamp", "processing_time_ms"} |-> r[k]]

\* C15: calls of predict and batch_predict on one loaded predictor may run
\* side by side without a lock: however their statements interleave, each
\* predict returns, timestamp and processing time apart, what it returns
\* when it runs alone, and each batch_predict the results of its URLs in the
\* order of its list.
C15_ConcurrentCallsAsAlone ==
    \A t \in Threads :
        LET call == threads[t].call
            f == threads[t].locals
            alone(k, env) == Timeless(predict(self, call.urls[k], call.model_type, env, 0))
        IN  /\ f.pc = "return" =>
                  /\ f.i \in 1..Len(call.urls)
                  /\ Timeless(f.ret) = alone(f.i, f.env)
            /\ f.pc = "done" =>
                  /\ Len(f.results) = Len(call.urls)
                  /\ \A k \in 1..Len(call.urls) :
                        Timeless(f.results[k]) = alone(k, f.envs[k])

\* Two calls with different arguments are both at their return statement:
\* a predict with a success, and a batch_predict at its second URL with a
\* failure after a success
C15_Witness ==
    /\ threads[1].locals.pc = "return"
    /\ threads[2].locals.pc = "return"
    /\ threads[1].call.op = "predict"
    /\ threads[2].call.op = "batch_predict"
    /\ threads[2].locals.i = 2
    /\ threads[1].locals.url # threads[2].locals.url
    /\ IsSuccess(threads[1].locals.ret)
    /\ IsSuccess(threads[2].locals.results[1])
    /\ ~IsSuccess(threads[2].locals.ret)

====
